---- MODULE Spec2Model ----
(***************************************************************************)
(* Model of pkg/network/slirp4netns/slirp4netns.go: the slirp4netns        *)
(* parent driver (DetectFeatures, NewParentDriver, MTU, ConfigureNetwork   *)
(* and the cleanup closure it registers) and the child driver.             *)
(*                                                                         *)
(* Go strings are TLA+ strings; strconv.Itoa is ToString.  Errors are      *)
(* strings carrying the message the code wraps them with; "nil" is the nil *)
(* error.  A nil pointer is the value Nil.                                 *)
(***************************************************************************)
EXTENDS Integers, Sequences, FiniteSets, TLC

VARIABLES
    env,        \* what DetectFeatures meets: the binary it is given, whether
                \* LookPath finds it, whether "--help" succeeds and its output
    det,        \* outcome of the DetectFeatures call, or Nil
    driver,     \* the *parentDriver returned by NewParentDriver, or Nil
    newArgs,    \* arguments of the last NewParentDriver call, or Nil
    panicked,   \* panic message of the last NewParentDriver call, or "nil"
    mtuRet,     \* value returned by the last MTU() call, or Nil
    pc,         \* per call: position inside ConfigureNetwork / the cleanup chain
    childPID,   \* per call: the childPID argument
    tapState,   \* per call: outcome of parentutils.PrepareTap
    ctx,        \* per call: state of the context created by WithCancel
    cmd,        \* per call: argv of the exec.Cmd, or Nil
    proc,       \* per call: state of the helper OS process
    cleanups,   \* per call: the local slice `cleanups`
    ret,        \* per call: what ConfigureNetwork returned, or Nil
    chainIdx,   \* per call: index of the next action of the returned chain
    chainErr,   \* per call: error returned by the chain, "pending" until then
    waitErr,    \* per call: wErr of the cleanup closure, or "unset"
    log,        \* per call: history of externally visible steps
    tapDev,     \* per call: the device name handed to PrepareTap, or ""
    cleanupRet, \* per call: what the cleanup closure returned, or "unset"
    childMsg,   \* the NetworkMessage ConfigureNetworkChild is given, or Nil
    childRet    \* what ConfigureNetworkChild returned, or Nil

vars == <<env, det, driver, newArgs, panicked, mtuRet, pc, childPID, tapState, ctx,
          cmd, proc, cleanups, ret, chainIdx, chainErr, waitErr, log, tapDev,
          cleanupRet, childMsg, childRet>>

detVars == <<env, det>>
childVars == <<childMsg, childRet>>
drvVars == <<driver, newArgs, panicked, mtuRet>>
cnVars  == <<pc, childPID, tapState, ctx, cmd, proc, cleanups, ret, chainIdx,
             chainErr, waitErr, log, tapDev, cleanupRet>>

Nil == [nil |-> TRUE]      \* the nil pointer
NoErr == "nil"

(***************************************************************************)
(* Bounds of the model.                                                    *)
(***************************************************************************)
MaxFrags == 4      \* a help text is a concatenation of at most MaxFrags fragments
NumCalls == 2      \* ConfigureNetwork invocations the state has room for

Calls == 1..NumCalls

(***************************************************************************)
(* strings.Contains(s, substr): Index(s, substr) >= 0, a left-to-right     *)
(* scan for the first position at which substr matches.                    *)
(***************************************************************************)
RECURSIVE IndexFrom(_, _, _)
IndexFrom(s, substr, i) ==
    IF i + Len(substr) - 1 > Len(s) THEN -1
    ELSE IF SubSeq(s, i, i + Len(substr) - 1) = substr THEN i - 1
    ELSE IndexFrom(s, substr, i + 1)

Contains(s, substr) == IndexFrom(s, substr, 1) >= 0

(***************************************************************************)
(* DetectFeatures                                                          *)
(***************************************************************************)
\* Pieces the combined output of "slirp4netns --help" is made of.
Fragments == {"--cidr", "--disable-host-loopback", "--api-socket",
              "--create-sandbox", "--ci", "dr", "--CIDR"}

RECURSIVE Texts(_)
Texts(n) == IF n = 0 THEN {""}
            ELSE LET T == Texts(n - 1) IN T \cup {t \o f : t \in T, f \in Fragments}

HelpTexts == Texts(MaxFrags)

DetectBinaries == {"", "slirp4netns", "/usr/bin/slirp4netns"}

ErrEmptyBinary == "got empty slirp4netns binary"
ErrNotInstalled(binary) == "slirp4netns binary " \o binary \o " is not installed"
ErrHelpFailed(realBinary) ==
    "command " \o realBinary \o " --help failed, make sure slirp4netns v0.2.0+ is installed"

\* The Features literal built from the output s.
FeaturesMisnamed(s) ==
    [SupportsCIDR                |-> Contains(s, "--cidr"),
     SupportsDisableHostLoopback |-> Contains(s, "--disable-host-loopback"),
     SupportsAPISocket           |-> Contains(s, "--create-sandbox"),
     SupportsCreateSandbox       |-> Contains(s, "--api-socket")]

FeaturesOf(s) ==
    [SupportsCIDR                |-> Contains(s, "--cidr"),
     SupportsDisableHostLoopback |-> Contains(s, "--disable-host-loopback"),
     SupportsAPISocket           |-> Contains(s, "--api-socket"),
     SupportsCreateSandbox       |-> Contains(s, "--create-sandbox")]

\* One run of DetectFeatures(binary).  found is the outcome of exec.LookPath,
\* runOk and s those of cmd.CombinedOutput; lookPath and invoked record which
\* of the two external calls the run made.
DetectRunAnyway(binary, found, runOk, s) ==
    IF binary = "" THEN
        [binary |-> binary, lookPath |-> "notcalled", invoked |-> FALSE,
         output |-> "", features |-> Nil, err |-> ErrEmptyBinary]
    ELSE IF ~runOk THEN
        [binary |-> binary, lookPath |-> IF found THEN "found" ELSE "notfound",
         invoked |-> TRUE, output |-> s, features |-> Nil,
         err |-> ErrHelpFailed(binary)]
    ELSE
        [binary |-> binary, lookPath |-> IF found THEN "found" ELSE "notfound",
         invoked |-> TRUE, output |-> s, features |-> FeaturesOf(s), err |-> NoErr]

DetectResult(binary, found, runOk, s) ==
    IF binary = "" THEN
        [binary |-> binary, lookPath |-> "notcalled", invoked |-> FALSE,
         output |-> "", features |-> Nil, err |-> ErrEmptyBinary]
    ELSE IF ~found THEN
        [binary |-> binary, lookPath |-> "notfound", invoked |-> FALSE,
         output |-> "", features |-> Nil, err |-> ErrNotInstalled(binary)]
    ELSE IF ~runOk THEN
        [binary |-> binary, lookPath |-> "found", invoked |-> TRUE,
         output |-> s, features |-> Nil, err |-> ErrHelpFailed(binary)]
    ELSE
        [binary |-> binary, lookPath |-> "found", invoked |-> TRUE,
         output |-> s, features |-> FeaturesOf(s), err |-> NoErr]

DetectFeatures ==
    /\ env # Nil
    /\ det = Nil
    /\ det' = DetectResult(env.binary, env.found, env.runOk, env.output)
    /\ UNCHANGED <<env, drvVars, cnVars, childVars>>

(***************************************************************************)
(* IPv4 addresses and networks (net.IP, net.IPNet): an address and a mask  *)
(* are the four bytes Go holds them as, most significant first.            *)
(***************************************************************************)
IPv4(a, b, c, d) == <<a, b, c, d>>

\* One byte of net.CIDRMask(ones, 32), n being the ones left for this byte.
MaskByte(n) == IF n >= 8 THEN 255 ELSE IF n <= 0 THEN 0 ELSE 256 - 2 ^ (8 - n)

CIDRMask(ones) ==
    <<MaskByte(ones), MaskByte(ones - 8), MaskByte(ones - 16), MaskByte(ones - 24)>>

\* net.IPMask.Size(): the number of leading one bits of a canonical mask.
RECURSIVE LeadingOnes(_, _)
LeadingOnes(byte, bit) ==
    IF bit = 0 THEN 0
    ELSE IF (byte \div 2 ^ (bit - 1)) % 2 = 1 THEN 1 + LeadingOnes(byte, bit - 1)
    ELSE 0

RECURSIVE MaskSizeFrom(_, _)
MaskSizeFrom(mask, k) ==
    IF k > Len(mask) THEN 0
    ELSE IF mask[k] = 255 THEN 8 + MaskSizeFrom(mask, k + 1)
    ELSE LeadingOnes(mask[k], 8)

MaskSize(mask) == MaskSizeFrom(mask, 1)

\* net.IP.String(): dotted decimal.
IPString(x) ==
    ToString(x[1]) \o "." \o ToString(x[2]) \o "." \o ToString(x[3]) \o "."
        \o ToString(x[4])

\* net.IPNet.String(): address "/" prefix length.
IPNetString(n) == IPString(n.IP) \o "/" \o ToString(MaskSize(n.Mask))

MkIPNet(ip, ones) == [IP |-> ip, Mask |-> CIDRMask(ones)]

\* The address ranges a driver is constructed with: network addresses with
\* their prefix length, the last two so close to the top of the address
\* space that adding a host offset leaves 32 bits.
IPNetInputs ==
    { MkIPNet(IPv4(10, 0, 2, 0), 24),
      MkIPNet(IPv4(10, 0, 255, 192), 26),
      MkIPNet(IPv4(172, 16, 0, 0), 12),
      MkIPNet(IPv4(0, 0, 0, 0), 0),
      MkIPNet(IPv4(255, 255, 255, 192), 26),
      MkIPNet(IPv4(255, 255, 255, 254), 31) }

\* iputils.AddIPInt(ip, i): the address i above ip, an error when the sum
\* does not fit the four bytes.  lo and hi are the two 16-bit halves.
AddBytes(ip, i) ==
    LET lo == ip[3] * 256 + ip[4] + i
        hi == ip[1] * 256 + ip[2] + lo \div 65536
    IN  [carry |-> hi \div 65536,
         ip |-> <<(hi % 65536) \div 256, hi % 256, (lo % 65536) \div 256, lo % 256>>]

ErrAddIPInt == "iputils.AddIPInt: address overflow"

AddIPInt(ip, i) ==
    IF AddBytes(ip, i).carry # 0 THEN [ip |-> Nil, err |-> ErrAddIPInt]
    ELSE [ip |-> AddBytes(ip, i).ip, err |-> NoErr]

(***************************************************************************)
(* NewParentDriver, MTU                                                    *)
(***************************************************************************)
DefaultMTU == 65520

Binaries == {"", "slirp4netns"}
MTUInputs == {-1, 0, 1500, 65520}
APISocketPaths == {"", "/run/slirp4netns.sock"}

PanicEmptyBinary == "got empty slirp4netns binary"
PanicNegativeMTU == "got negative mtu"

\* The panic NewParentDriver raises for its arguments, "nil" when it returns.
NewParentDriverPanicBinaryOnly(binary, mtu) ==
    IF binary = "" THEN PanicEmptyBinary ELSE NoErr

NewParentDriverPanic(binary, mtu) ==
    IF binary = "" THEN PanicEmptyBinary
    ELSE IF mtu < 0 THEN PanicNegativeMTU
    ELSE NoErr

\* The mtu field of the driver NewParentDriver builds.
EffectiveMTUKeepZero(mtu) == mtu

EffectiveMTU(mtu) == IF mtu = 0 THEN DefaultMTU ELSE mtu

NewParentDriver ==
    /\ driver = Nil
    /\ \E binary \in Binaries, mtu \in MTUInputs, ipnet \in IPNetInputs \cup {Nil},
          disableHostLoopback \in BOOLEAN, apiSocketPath \in APISocketPaths,
          createSandbox \in BOOLEAN :
          /\ newArgs' = [binary |-> binary, mtu |-> mtu, ipnet |-> ipnet,
                         disableHostLoopback |-> disableHostLoopback,
                         apiSocketPath |-> apiSocketPath,
                         createSandbox |-> createSandbox]
          /\ panicked' = NewParentDriverPanic(binary, mtu)
          /\ driver' = IF NewParentDriverPanic(binary, mtu) # NoErr THEN Nil
                       ELSE [binary |-> binary, mtu |-> EffectiveMTU(mtu),
                             ipnet |-> ipnet,
                             disableHostLoopback |-> disableHostLoopback,
                             apiSocketPath |-> apiSocketPath,
                             createSandbox |-> createSandbox]
    /\ UNCHANGED <<childVars, detVars, mtuRet, cnVars>>

\* (d *parentDriver) MTU()
MTU ==
    /\ driver # Nil
    /\ mtuRet = Nil
    /\ mtuRet' = [value |-> driver.mtu]
    /\ UNCHANGED <<childVars, detVars, driver, newArgs, panicked, cnVars>>

(***************************************************************************)
(* ConfigureNetwork                                                        *)
(***************************************************************************)
tap == "tap0"

Pids == {1, 4242}

ErrPrepareTap == "setting up tap " \o tap
ErrStart == "executing slirp4netns"
ErrWaitNotStarted == "exec: not started"
ErrWaitKilled == "signal: killed"
ErrWaitExit == "exit status 1"

\* The cleanup closure appended to `cleanups`.
KillSlirp4netns == "killing slirp4netns"

\* common.Seq(fs): the chain that runs the functions of fs.
CommonSeq(fs) == fs

\* Lines 105-118: the argv of the helper.
OptsCidrFirst(d, pid) ==
    <<"--mtu", ToString(d.mtu)>>
        \o (IF d.ipnet # Nil THEN <<"--cidr", IPNetString(d.ipnet)>> ELSE <<>>)
        \o (IF d.disableHostLoopback THEN <<"--disable-host-loopback">> ELSE <<>>)
        \o (IF d.apiSocketPath # "" THEN <<"--api-socket", d.apiSocketPath>> ELSE <<>>)
        \o (IF d.createSandbox THEN <<"--create-sandbox">> ELSE <<>>)
        \o <<ToString(pid), tap>>

Opts(d, pid) ==
    <<"--mtu", ToString(d.mtu)>>
        \o (IF d.disableHostLoopback THEN <<"--disable-host-loopback">> ELSE <<>>)
        \o (IF d.ipnet # Nil THEN <<"--cidr", IPNetString(d.ipnet)>> ELSE <<>>)
        \o (IF d.apiSocketPath # "" THEN <<"--api-socket", d.apiSocketPath>> ELSE <<>>)
        \o (IF d.createSandbox THEN <<"--create-sandbox">> ELSE <<>>)
        \o <<ToString(pid), tap>>

Return(netmsg, chain, err) == [netmsg |-> netmsg, chain |-> chain, err |-> err]

\* Lines 99-103: PrepareTap, and the return of its failure.
PrepareTapFailPath(c, ok) ==
    /\ tapState' = [tapState EXCEPT ![c] = IF ok THEN "prepared" ELSE "failed"]
    /\ log' = [log EXCEPT ![c] = Append(@, "PrepareTap")]
    /\ pc' = [pc EXCEPT ![c] = "Command"]
    /\ UNCHANGED ret

PrepareTapOutcome(c, ok) ==
    /\ tapState' = [tapState EXCEPT ![c] = IF ok THEN "prepared" ELSE "failed"]
    /\ log' = [log EXCEPT ![c] = Append(@, "PrepareTap")]
    /\ IF ok
       THEN /\ pc' = [pc EXCEPT ![c] = "Command"]
            /\ UNCHANGED ret
       ELSE /\ pc' = [pc EXCEPT ![c] = "returned"]
            /\ ret' = [ret EXCEPT ![c] = Return(Nil, CommonSeq(cleanups[c]), ErrPrepareTap)]

ConfigureNetwork_PrepareTap(c) ==
    /\ driver # Nil
    /\ pc[c] = "idle"
    /\ \E pid \in Pids, ok \in BOOLEAN :
          /\ childPID' = [childPID EXCEPT ![c] = pid]
          /\ PrepareTapOutcome(c, ok)
    /\ tapDev' = [tapDev EXCEPT ![c] = tap]
    /\ UNCHANGED <<childVars, detVars, drvVars, ctx, cmd, proc, cleanups, chainIdx, chainErr,
                   waitErr, cleanupRet>>

\* Lines 104-128: the context, the command and the registration of the
\* cleanup closure.
ConfigureNetwork_CommandRegistersTwice(c) ==
    /\ pc[c] = "Command"
    /\ ctx' = [ctx EXCEPT ![c] = "active"]
    /\ cmd' = [cmd EXCEPT ![c] = [Path |-> driver.binary,
                                  Args |-> Opts(driver, childPID[c])]]
    /\ cleanups' = [cleanups EXCEPT ![c] = @ \o <<KillSlirp4netns, KillSlirp4netns>>]
    /\ log' = [log EXCEPT ![c] = Append(@, "register")]
    /\ pc' = [pc EXCEPT ![c] = "Start"]
    /\ UNCHANGED <<childVars, detVars, drvVars, childPID, tapState, proc, ret, chainIdx,
                   chainErr, waitErr,
                   tapDev, cleanupRet>>

ConfigureNetwork_Command(c) ==
    /\ pc[c] = "Command"
    /\ ctx' = [ctx EXCEPT ![c] = "active"]
    /\ cmd' = [cmd EXCEPT ![c] = [Path |-> driver.binary,
                                  Args |-> Opts(driver, childPID[c])]]
    /\ cleanups' = [cleanups EXCEPT ![c] = Append(@, KillSlirp4netns)]
    /\ log' = [log EXCEPT ![c] = Append(@, "register")]
    /\ pc' = [pc EXCEPT ![c] = "Start"]
    /\ UNCHANGED <<childVars, detVars, drvVars, childPID, tapState, proc, ret, chainIdx,
                   chainErr, waitErr,
                   tapDev, cleanupRet>>

\* Lines 129-131: cmd.Start().
ConfigureNetwork_StartEmptyChain(c) ==
    /\ pc[c] = "Start"
    /\ \E ok \in BOOLEAN :
          IF ok
          THEN /\ proc' = [proc EXCEPT ![c] = "running"]
               /\ log' = [log EXCEPT ![c] = Append(@, "Start")]
               /\ pc' = [pc EXCEPT ![c] = "Plan"]
               /\ UNCHANGED ret
          ELSE /\ log' = [log EXCEPT ![c] = Append(@, "StartFailed")]
               /\ pc' = [pc EXCEPT ![c] = "returned"]
               /\ ret' = [ret EXCEPT ![c] = Return(Nil, CommonSeq(<<>>), ErrStart)]
               /\ UNCHANGED proc
    /\ UNCHANGED <<childVars, detVars, drvVars, childPID, tapState, ctx, cmd, cleanups,
                   chainIdx, chainErr, waitErr,
                   tapDev, cleanupRet>>

ConfigureNetwork_Start(c) ==
    /\ pc[c] = "Start"
    /\ \E ok \in BOOLEAN :
          IF ok
          THEN /\ proc' = [proc EXCEPT ![c] = "running"]
               /\ log' = [log EXCEPT ![c] = Append(@, "Start")]
               /\ pc' = [pc EXCEPT ![c] = "Plan"]
               /\ UNCHANGED ret
          ELSE /\ log' = [log EXCEPT ![c] = Append(@, "StartFailed")]
               /\ pc' = [pc EXCEPT ![c] = "returned"]
               /\ ret' = [ret EXCEPT ![c] = Return(Nil, CommonSeq(cleanups[c]), ErrStart)]
               /\ UNCHANGED proc
    /\ UNCHANGED <<childVars, detVars, drvVars, childPID, tapState, ctx, cmd, cleanups,
                   chainIdx, chainErr, waitErr,
                   tapDev, cleanupRet>>

\* Lines 132-160: the NetworkMessage.  The result is the message, or the
\* error of the first AddIPInt that fails.
NetmsgSwapped(d) ==
    IF d.ipnet # Nil THEN
        LET x100 == AddIPInt(d.ipnet.IP, 100)
            x2   == AddIPInt(d.ipnet.IP, 2)
            x3   == AddIPInt(d.ipnet.IP, 3)
        IN  IF x100.err # NoErr THEN [netmsg |-> Nil, err |-> x100.err]
            ELSE IF x2.err # NoErr THEN [netmsg |-> Nil, err |-> x2.err]
            ELSE IF x3.err # NoErr THEN [netmsg |-> Nil, err |-> x3.err]
            ELSE [netmsg |-> [Dev |-> tap, MTU |-> d.mtu,
                              IP |-> IPString(x100.ip),
                              Netmask |-> MaskSize(d.ipnet.Mask),
                              Gateway |-> IPString(x3.ip),
                              DNS |-> IPString(x2.ip)],
                  err |-> NoErr]
    ELSE [netmsg |-> [Dev |-> tap, MTU |-> d.mtu, IP |-> "10.0.2.100",
                      Netmask |-> 24, Gateway |-> "10.0.2.2", DNS |-> "10.0.2.3"],
          err |-> NoErr]

NetmsgDefaultGateway(d) ==
    IF d.ipnet # Nil THEN
        LET x100 == AddIPInt(d.ipnet.IP, 100)
            x2   == AddIPInt(d.ipnet.IP, 2)
            x3   == AddIPInt(d.ipnet.IP, 3)
        IN  IF x100.err # NoErr THEN [netmsg |-> Nil, err |-> x100.err]
            ELSE IF x2.err # NoErr THEN [netmsg |-> Nil, err |-> x2.err]
            ELSE IF x3.err # NoErr THEN [netmsg |-> Nil, err |-> x3.err]
            ELSE [netmsg |-> [Dev |-> tap, MTU |-> d.mtu,
                              IP |-> IPString(x100.ip),
                              Netmask |-> MaskSize(d.ipnet.Mask),
                              Gateway |-> IPString(x2.ip),
                              DNS |-> IPString(x3.ip)],
                  err |-> NoErr]
    ELSE [netmsg |-> [Dev |-> tap, MTU |-> d.mtu, IP |-> "10.0.2.100",
                      Netmask |-> 24, Gateway |-> "10.0.2.1", DNS |-> "10.0.2.3"],
          err |-> NoErr]

NetmsgNoDev(d) ==
    IF d.ipnet # Nil THEN
        LET x100 == AddIPInt(d.ipnet.IP, 100)
            x2   == AddIPInt(d.ipnet.IP, 2)
            x3   == AddIPInt(d.ipnet.IP, 3)
        IN  IF x100.err # NoErr THEN [netmsg |-> Nil, err |-> x100.err]
            ELSE IF x2.err # NoErr THEN [netmsg |-> Nil, err |-> x2.err]
            ELSE IF x3.err # NoErr THEN [netmsg |-> Nil, err |-> x3.err]
            ELSE [netmsg |-> [Dev |-> "", MTU |-> d.mtu,
                              IP |-> IPString(x100.ip),
                              Netmask |-> MaskSize(d.ipnet.Mask),
                              Gateway |-> IPString(x2.ip),
                              DNS |-> IPString(x3.ip)],
                  err |-> NoErr]
    ELSE [netmsg |-> [Dev |-> "", MTU |-> d.mtu, IP |-> "10.0.2.100",
                      Netmask |-> 24, Gateway |-> "10.0.2.2", DNS |-> "10.0.2.3"],
          err |-> NoErr]

NetmsgPartialOnError(d) ==
    IF d.ipnet # Nil THEN
        LET x100 == AddIPInt(d.ipnet.IP, 100)
            x2   == AddIPInt(d.ipnet.IP, 2)
            x3   == AddIPInt(d.ipnet.IP, 3)
        IN  IF x100.err # NoErr THEN [netmsg |-> [Dev |-> tap, MTU |-> d.mtu], err |-> x100.err]
            ELSE IF x2.err # NoErr THEN [netmsg |-> [Dev |-> tap, MTU |-> d.mtu, IP |-> IPString(x100.ip)],
                  err |-> x2.err]
            ELSE IF x3.err # NoErr THEN [netmsg |-> Nil, err |-> x3.err]
            ELSE [netmsg |-> [Dev |-> tap, MTU |-> d.mtu,
                              IP |-> IPString(x100.ip),
                              Netmask |-> MaskSize(d.ipnet.Mask),
                              Gateway |-> IPString(x2.ip),
                              DNS |-> IPString(x3.ip)],
                  err |-> NoErr]
    ELSE [netmsg |-> [Dev |-> tap, MTU |-> d.mtu, IP |-> "10.0.2.100",
                      Netmask |-> 24, Gateway |-> "10.0.2.2", DNS |-> "10.0.2.3"],
          err |-> NoErr]

Netmsg(d) ==
    IF d.ipnet # Nil THEN
        LET x100 == AddIPInt(d.ipnet.IP, 100)
            x2   == AddIPInt(d.ipnet.IP, 2)
            x3   == AddIPInt(d.ipnet.IP, 3)
        IN  IF x100.err # NoErr THEN [netmsg |-> Nil, err |-> x100.err]
            ELSE IF x2.err # NoErr THEN [netmsg |-> Nil, err |-> x2.err]
            ELSE IF x3.err # NoErr THEN [netmsg |-> Nil, err |-> x3.err]
            ELSE [netmsg |-> [Dev |-> tap, MTU |-> d.mtu,
                              IP |-> IPString(x100.ip),
                              Netmask |-> MaskSize(d.ipnet.Mask),
                              Gateway |-> IPString(x2.ip),
                              DNS |-> IPString(x3.ip)],
                  err |-> NoErr]
    ELSE [netmsg |-> [Dev |-> tap, MTU |-> d.mtu, IP |-> "10.0.2.100",
                      Netmask |-> 24, Gateway |-> "10.0.2.2", DNS |-> "10.0.2.3"],
          err |-> NoErr]

\* The cleanup chain returned with the result of Netmsg.
PlanChainDropped(c, err) == IF err # NoErr THEN CommonSeq(<<>>) ELSE CommonSeq(cleanups[c])

PlanChain(c, err) == CommonSeq(cleanups[c])

ConfigureNetwork_Plan(c) ==
    /\ pc[c] = "Plan"
    /\ LET r == Netmsg(driver)
       IN  ret' = [ret EXCEPT ![c] = Return(r.netmsg, PlanChain(c, r.err), r.err)]
    /\ pc' = [pc EXCEPT ![c] = "returned"]
    /\ UNCHANGED <<childVars, detVars, drvVars, childPID, tapState, ctx, cmd, proc, cleanups,
                   chainIdx, chainErr, waitErr, log,
                   tapDev, cleanupRet>>

(***************************************************************************)
(* The returned cleanup chain, the cleanup closure and the helper process  *)
(***************************************************************************)
\* The caller invokes the chain ConfigureNetwork returned: its first
\* function starts, or the chain returns at once when it has none.
Seq_Call(c) ==
    /\ pc[c] = "returned"
    /\ IF Len(ret[c].chain) = 0
       THEN /\ pc' = [pc EXCEPT ![c] = "done"]
            /\ chainErr' = [chainErr EXCEPT ![c] = NoErr]
            /\ UNCHANGED chainIdx
       ELSE /\ pc' = [pc EXCEPT ![c] = "Cancel"]
            /\ chainIdx' = [chainIdx EXCEPT ![c] = 1]
            /\ UNCHANGED chainErr
    /\ UNCHANGED <<childVars, detVars, drvVars, childPID, tapState, ctx, cmd, proc, cleanups,
                   ret, waitErr, log,
                   tapDev, cleanupRet>>

\* A function of the chain returned err: the chain stops with the first
\* error, runs its next function, or returns nil after the last one.
Seq_ContinuePastEnd(c, err) ==
    IF err # NoErr
    THEN /\ pc' = [pc EXCEPT ![c] = "done"]
         /\ chainErr' = [chainErr EXCEPT ![c] = err]
         /\ UNCHANGED chainIdx
    ELSE IF chainIdx[c] <= Len(ret[c].chain)
    THEN /\ pc' = [pc EXCEPT ![c] = "Cancel"]
         /\ chainIdx' = [chainIdx EXCEPT ![c] = @ + 1]
         /\ UNCHANGED chainErr
    ELSE /\ pc' = [pc EXCEPT ![c] = "done"]
         /\ chainErr' = [chainErr EXCEPT ![c] = NoErr]
         /\ UNCHANGED chainIdx

Seq_Continue(c, err) ==
    IF err # NoErr
    THEN /\ pc' = [pc EXCEPT ![c] = "done"]
         /\ chainErr' = [chainErr EXCEPT ![c] = err]
         /\ UNCHANGED chainIdx
    ELSE IF chainIdx[c] < Len(ret[c].chain)
    THEN /\ pc' = [pc EXCEPT ![c] = "Cancel"]
         /\ chainIdx' = [chainIdx EXCEPT ![c] = @ + 1]
         /\ UNCHANGED chainErr
    ELSE /\ pc' = [pc EXCEPT ![c] = "done"]
         /\ chainErr' = [chainErr EXCEPT ![c] = NoErr]
         /\ UNCHANGED chainIdx

\* Lines 123-124 of the closure: cancel().
Cleanup_CancelSkipped(c) ==
    /\ pc[c] = "Cancel"
    /\ log' = [log EXCEPT ![c] = Append(@, KillSlirp4netns)]
    /\ pc' = [pc EXCEPT ![c] = "Wait"]
    /\ UNCHANGED <<childVars, detVars, drvVars, childPID, tapState, ctx, cmd, proc, cleanups,
                   ret, chainIdx, chainErr, waitErr,
                   tapDev, cleanupRet>>

Cleanup_CancelShared(c) ==
    /\ pc[c] = "Cancel"
    /\ ctx' = [d \in Calls |-> IF d = c \/ ctx[d] = "active" THEN "cancelled"
                                ELSE ctx[d]]
    /\ log' = [log EXCEPT ![c] = @ \o <<KillSlirp4netns, "cancel">>]
    /\ pc' = [pc EXCEPT ![c] = "Wait"]
    /\ UNCHANGED <<childVars, detVars, drvVars, childPID, tapState, cmd, proc, cleanups,
                   ret, chainIdx, chainErr, waitErr,
                   tapDev, cleanupRet>>

Cleanup_Cancel(c) ==
    /\ pc[c] = "Cancel"
    /\ ctx' = [ctx EXCEPT ![c] = "cancelled"]
    /\ log' = [log EXCEPT ![c] = @ \o <<KillSlirp4netns, "cancel">>]
    /\ pc' = [pc EXCEPT ![c] = "Wait"]
    /\ UNCHANGED <<childVars, detVars, drvVars, childPID, tapState, cmd, proc, cleanups,
                   ret, chainIdx, chainErr, waitErr,
                   tapDev, cleanupRet>>

\* cmd.Wait() of a process in state p: an error at once when the process
\* was never started, else the exit status of the process it has reaped.
WaitError(p) ==
    CASE p = "none"   -> ErrWaitNotStarted
      [] p = "killed" -> ErrWaitKilled
      [] p = "exit1"  -> ErrWaitExit
      [] OTHER        -> NoErr

\* Line 127: what the closure returns after wErr.
CleanupReturnsWaitError(wErr) == wErr

CleanupReturn(wErr) == NoErr

\* Lines 125-127 of the closure: cmd.Wait(), which blocks while the
\* process runs, and the return.
Cleanup_WaitNoBlock(c) ==
    /\ pc[c] = "Wait"
    /\ waitErr' = [waitErr EXCEPT ![c] = WaitError(proc[c])]
    /\ cleanupRet' = [cleanupRet EXCEPT ![c] = CleanupReturn(WaitError(proc[c]))]
    /\ log' = [log EXCEPT ![c] = @ \o <<"wait", "killed slirp4netns">>]
    /\ Seq_Continue(c, CleanupReturn(WaitError(proc[c])))
    /\ UNCHANGED <<childVars, detVars, drvVars, childPID, tapState, ctx, cmd, proc, cleanups,
                   ret, tapDev>>

Cleanup_WaitBlocksUnstarted(c) ==
    /\ pc[c] = "Wait"
    /\ proc[c] \notin {"running", "none"}
    /\ waitErr' = [waitErr EXCEPT ![c] = WaitError(proc[c])]
    /\ cleanupRet' = [cleanupRet EXCEPT ![c] = CleanupReturn(WaitError(proc[c]))]
    /\ log' = [log EXCEPT ![c] = @ \o <<"wait", "killed slirp4netns">>]
    /\ Seq_Continue(c, CleanupReturn(WaitError(proc[c])))
    /\ UNCHANGED <<childVars, detVars, drvVars, childPID, tapState, ctx, cmd, proc, cleanups,
                   ret, tapDev>>

Cleanup_Wait(c) ==
    /\ pc[c] = "Wait"
    /\ proc[c] # "running"
    /\ waitErr' = [waitErr EXCEPT ![c] = WaitError(proc[c])]
    /\ cleanupRet' = [cleanupRet EXCEPT ![c] = CleanupReturn(WaitError(proc[c]))]
    /\ log' = [log EXCEPT ![c] = @ \o <<"wait", "killed slirp4netns">>]
    /\ Seq_Continue(c, CleanupReturn(WaitError(proc[c])))
    /\ UNCHANGED <<childVars, detVars, drvVars, childPID, tapState, ctx, cmd, proc, cleanups,
                   ret, tapDev>>

\* exec.CommandContext: the helper is killed once its context is done.
Helper_Killed(c) ==
    /\ proc[c] = "running"
    /\ ctx[c] = "cancelled"
    /\ proc' = [proc EXCEPT ![c] = "killed"]
    /\ UNCHANGED <<childVars, detVars, drvVars, pc, childPID, tapState, ctx, cmd, cleanups,
                   ret, chainIdx, chainErr, waitErr, log,
                   tapDev, cleanupRet>>

\* The helper exits on its own, with status 0 or 1.
Helper_Exit(c) ==
    /\ proc[c] = "running"
    /\ \E st \in {"exit0", "exit1"} : proc' = [proc EXCEPT ![c] = st]
    /\ UNCHANGED <<childVars, detVars, drvVars, pc, childPID, tapState, ctx, cmd, cleanups,
                   ret, chainIdx, chainErr, waitErr, log,
                   tapDev, cleanupRet>>

(***************************************************************************)
(* ConfigureNetworkChild                                                   *)
(***************************************************************************)
ErrNoTap == "could not determine the preconfigured tap"

\* The messages the child driver is handed.
ChildMessages ==
    [Dev : {"", "tap0", "eth0", " "}, MTU : {0, 1500, 65520},
     IP : {"", "10.0.2.100"}, Netmask : {0, 24}, Gateway : {"", "10.0.2.2"},
     DNS : {"", "10.0.2.3"}]

\* Lines 170-179: the device name and the error returned for netmsg.
ChildResultFixedTap(netmsg) ==
    IF netmsg.Dev = "" THEN [tap |-> "", err |-> ErrNoTap]
    ELSE [tap |-> "tap0", err |-> NoErr]

ChildResult(netmsg) ==
    IF netmsg.Dev = "" THEN [tap |-> "", err |-> ErrNoTap]
    ELSE [tap |-> netmsg.Dev, err |-> NoErr]

ConfigureNetworkChild ==
    /\ childMsg # Nil
    /\ childRet = Nil
    /\ childRet' = ChildResult(childMsg)
    /\ UNCHANGED <<childMsg, detVars, drvVars, cnVars>>

(***************************************************************************)
(* Specifications                                                          *)
(***************************************************************************)
InitCalls ==
    /\ pc = [c \in Calls |-> "idle"]
    /\ childPID = [c \in Calls |-> 0]
    /\ tapState = [c \in Calls |-> "none"]
    /\ ctx = [c \in Calls |-> "none"]
    /\ cmd = [c \in Calls |-> Nil]
    /\ proc = [c \in Calls |-> "none"]
    /\ cleanups = [c \in Calls |-> <<>>]
    /\ ret = [c \in Calls |-> Nil]
    /\ chainIdx = [c \in Calls |-> 0]
    /\ chainErr = [c \in Calls |-> "pending"]
    /\ waitErr = [c \in Calls |-> "unset"]
    /\ log = [c \in Calls |-> <<>>]
    /\ tapDev = [c \in Calls |-> ""]
    /\ cleanupRet = [c \in Calls |-> "unset"]

InitDriver ==
    /\ driver = Nil
    /\ newArgs = Nil
    /\ panicked = NoErr
    /\ mtuRet = Nil

InitChild ==
    /\ childMsg = Nil
    /\ childRet = Nil

Init ==
    /\ env = Nil
    /\ det = Nil
    /\ InitChild
    /\ InitDriver
    /\ InitCalls

\* One ConfigureNetwork invocation and the run of its cleanup chain.
Invocation(c) ==
    \/ ConfigureNetwork_PrepareTap(c)
    \/ ConfigureNetwork_Command(c)
    \/ ConfigureNetwork_Start(c)
    \/ ConfigureNetwork_Plan(c)
    \/ Seq_Call(c)
    \/ Cleanup_Cancel(c)
    \/ Cleanup_Wait(c)
    \/ Helper_Killed(c)
    \/ Helper_Exit(c)

\* A driver is constructed and used for a single ConfigureNetwork call.
Next == NewParentDriver \/ MTU \/ Invocation(1)

Spec == Init /\ [][Next]_vars

\* The same with the scheduling the runtime gives: a cleanup closure that
\* has been called runs on, and the helper of a cancelled context is killed.
\* Whether the caller invokes the chain is left to the caller.
Fairness ==
    \A c \in Calls :
        /\ WF_vars(Cleanup_Cancel(c))
        /\ WF_vars(Cleanup_Wait(c))
        /\ WF_vars(Helper_Killed(c))

SpecLive == Spec /\ Fairness

\* One constructed driver, used by several ConfigureNetwork invocations
\* that run concurrently.
ConcDriverArgs ==
    { [binary |-> "slirp4netns", mtu |-> 0, ipnet |-> Nil,
       disableHostLoopback |-> FALSE, apiSocketPath |-> "",
       createSandbox |-> FALSE],
      [binary |-> "slirp4netns", mtu |-> 1500,
       ipnet |-> MkIPNet(IPv4(10, 0, 2, 0), 24),
       disableHostLoopback |-> TRUE, apiSocketPath |-> "/run/slirp4netns.sock",
       createSandbox |-> TRUE],
      [binary |-> "slirp4netns", mtu |-> 65520,
       ipnet |-> MkIPNet(IPv4(255, 255, 255, 192), 26),
       disableHostLoopback |-> FALSE, apiSocketPath |-> "",
       createSandbox |-> TRUE] }

\* The struct NewParentDriver returns for arguments it accepts.
DriverOf(a) == [a EXCEPT !.mtu = EffectiveMTU(a.mtu)]

InitConc ==
    /\ env = Nil
    /\ det = Nil
    /\ InitChild
    /\ newArgs \in ConcDriverArgs
    /\ driver = DriverOf(newArgs)
    /\ panicked = NoErr
    /\ mtuRet = Nil
    /\ InitCalls

NextConc == \E c \in Calls : Invocation(c)

SpecConc == InitConc /\ [][NextConc]_vars

\* Capability detection on its own.
NextDetect == DetectFeatures

InitDetect ==
    /\ env \in [binary : DetectBinaries, found : BOOLEAN, runOk : BOOLEAN,
                output : HelpTexts]
    /\ det = Nil
    /\ InitChild
    /\ InitDriver
    /\ InitCalls

SpecDetect == InitDetect /\ [][NextDetect]_vars

\* The child driver on its own.
NextChild == ConfigureNetworkChild

InitChildDriver ==
    /\ childMsg \in ChildMessages
    /\ childRet = Nil
    /\ env = Nil
    /\ det = Nil
    /\ InitDriver
    /\ InitCalls

SpecChild == InitChildDriver /\ [][NextChild]_vars

(***************************************************************************)
(* Properties                                                              *)
(***************************************************************************)
\* ConfigureNetwork has returned in call c.
Returned(c) == ret[c] # Nil

\* The cleanup functions that have started to run, in the order they started.
IsCleanupName(e) == e = KillSlirp4netns
Ran(c) == SelectSeq(log[c], IsCleanupName)

IsPrefix(p, q) == Len(p) <= Len(q) /\ SubSeq(q, 1, Len(p)) = p

\* Positions of an event in a log.
Positions(l, e) == {i \in 1..Len(l) : l[i] = e}

C2_CancelBeforeWait ==
    \A c \in Calls :
        /\ \A w \in Positions(log[c], "wait") :
              \E k \in Positions(log[c], "cancel") : k < w
        /\ \A e \in Positions(log[c], "killed slirp4netns") :
              /\ \E k \in Positions(log[c], "cancel") : k < e
              /\ \E w \in Positions(log[c], "wait") : w < e
        /\ Cardinality(Positions(log[c], KillSlirp4netns))
              = Cardinality(Positions(log[c], "cancel"))
        /\ pc[c] = "done" =>
              Cardinality(Positions(log[c], "wait"))
                  = Cardinality(Positions(log[c], "cancel"))
        /\ pc[c] = "Wait" => ctx[c] = "cancelled"

C2_Witness ==
    /\ pc[1] = "done"
    /\ log[1] = <<"PrepareTap", "register", "Start", KillSlirp4netns, "cancel",
                  "wait", "killed slirp4netns">>
    /\ proc[1] = "killed"

\* C3: when an address computation fails, ConfigureNetwork returns that
\* error, no message, and a chain holding the cleanup of the helper it has
\* started; once that chain has returned the helper was cancelled and
\* waited for.
C3_AddressErrorKeepsCleanup ==
    \A c \in Calls :
        (Returned(c) /\ ret[c].err = ErrAddIPInt) =>
            /\ driver.ipnet # Nil
            /\ ret[c].netmsg = Nil
            /\ ret[c].chain = <<KillSlirp4netns>>
            /\ "Start" \in {log[c][i] : i \in 1..Len(log[c])}
            /\ proc[c] # "none"
            /\ pc[c] = "done" =>
                  /\ ctx[c] = "cancelled"
                  /\ waitErr[c] # "unset"
                  /\ proc[c] # "running"
                  /\ chainErr[c] = NoErr

C3_Witness ==
    /\ Returned(1)
    /\ ret[1].err = ErrAddIPInt
    /\ pc[1] = "done"
    /\ proc[1] = "killed"
    /\ waitErr[1] = ErrWaitKilled

\* C4: when PrepareTap fails, ConfigureNetwork returns the wrapped error
\* with no message and an empty chain, and neither a context nor a command
\* nor a helper process has been created.
C4_PrepareTapFailure ==
    \A c \in Calls :
        tapState[c] = "failed" =>
            /\ Returned(c)
            /\ ret[c].err = ErrPrepareTap
            /\ ret[c].netmsg = Nil
            /\ ret[c].chain = <<>>
            /\ cleanups[c] = <<>>
            /\ ctx[c] = "none"
            /\ cmd[c] = Nil
            /\ proc[c] = "none"
            /\ log[c] = <<"PrepareTap">>

C4_Witness ==
    /\ tapState[1] = "failed"
    /\ pc[1] = "done"
    /\ chainErr[1] = NoErr

\* Position of the flag f in an argv, 0 when it is absent.
FlagPos(args, f) ==
    IF Positions(args, f) = {} THEN 0
    ELSE CHOOSE i \in Positions(args, f) : \A j \in Positions(args, f) : i <= j

\* C5: the argv of the helper is --mtu <n>, then --disable-host-loopback,
\* --cidr <addr>/<prefix>, --api-socket <path> and --create-sandbox, each
\* present exactly when configured and in this order, then the pid and the
\* device name.
C5_ArgumentOrder ==
    \A c \in Calls :
        cmd[c] # Nil =>
            LET args == cmd[c].Args
                n    == Len(args)
                dhl  == FlagPos(args, "--disable-host-loopback")
                cidr == FlagPos(args, "--cidr")
                api  == FlagPos(args, "--api-socket")
                cs   == FlagPos(args, "--create-sandbox")
                present == <<dhl, cidr, api, cs>>
            IN  /\ FlagPos(args, "--mtu") = 1
                /\ args[2] = ToString(driver.mtu)
                /\ (dhl # 0) <=> driver.disableHostLoopback
                /\ (cidr # 0) <=> (driver.ipnet # Nil)
                /\ (api # 0) <=> (driver.apiSocketPath # "")
                /\ (cs # 0) <=> driver.createSandbox
                /\ cidr # 0 => args[cidr + 1] = IPNetString(driver.ipnet)
                /\ api # 0 => args[api + 1] = driver.apiSocketPath
                /\ \A i, j \in 1..4 :
                      (i < j /\ present[i] # 0 /\ present[j] # 0) =>
                          present[i] < present[j]
                /\ \A i \in 1..4 : present[i] # 0 => (2 < present[i] /\ present[i] < n - 1)
                /\ args[n - 1] = ToString(childPID[c])
                /\ args[n] = tap
                /\ n = 4 + (IF dhl # 0 THEN 1 ELSE 0) + (IF cidr # 0 THEN 2 ELSE 0)
                         + (IF api # 0 THEN 2 ELSE 0) + (IF cs # 0 THEN 1 ELSE 0)

C5_Witness ==
    /\ cmd[1] # Nil
    /\ cmd[1].Args = <<"--mtu", "65520", "--disable-host-loopback", "--cidr",
                       "10.0.2.0/24", "--api-socket", "/run/slirp4netns.sock",
                       "--create-sandbox", "4242", "tap0">>
    /\ newArgs.mtu = 0

\* C6: a configured MTU of 0 gives the effective MTU 65520, a positive one
\* gives itself, a negative one is rejected by NewParentDriver; MTU()
\* returns the effective MTU, which is positive.
C6_EffectiveMTU ==
    /\ (newArgs # Nil /\ newArgs.mtu < 0) => (driver = Nil /\ panicked # NoErr)
    /\ driver # Nil =>
          /\ newArgs.mtu >= 0
          /\ newArgs.mtu = 0 => driver.mtu = 65520
          /\ newArgs.mtu > 0 => driver.mtu = newArgs.mtu
    /\ mtuRet # Nil =>
          /\ mtuRet.value > 0
          /\ newArgs.mtu = 0 => mtuRet.value = 65520
          /\ newArgs.mtu > 0 => mtuRet.value = newArgs.mtu

C6_Witness ==
    /\ mtuRet # Nil
    /\ newArgs.mtu = 0
    /\ mtuRet.value = 65520

\* Reading a dotted decimal string back into its four numbers.
DigitVal(ch) == CHOOSE d \in 0..9 : ToString(d) = ch

RECURSIVE ParseDotted(_, _, _, _)
ParseDotted(s, i, acc, out) ==
    IF i > Len(s) THEN Append(out, acc)
    ELSE IF SubSeq(s, i, i) = "." THEN ParseDotted(s, i + 1, 0, Append(out, acc))
    ELSE ParseDotted(s, i + 1, acc * 10 + DigitVal(SubSeq(s, i, i)), out)

ParseIP(s) == ParseDotted(s, 1, 0, <<>>)

\* The address x lies exactly k above the address a (k below 65536).
IsOffset(x, a, k) ==
    LET xhi == x[1] * 256 + x[2]
        xlo == x[3] * 256 + x[4]
        ahi == a[1] * 256 + a[2]
        alo == a[3] * 256 + a[4]
    IN  /\ Len(x) = 4
        /\ \A i \in 1..4 : x[i] \in 0..255
        /\ xhi - ahi \in {0, 1}
        /\ (xhi - ahi) * 65536 + (xlo - alo) = k

\* C7: with an explicit range of network address A and prefix length p, a
\* successful ConfigureNetwork returns IP = A+100, gateway = A+2, DNS = A+3
\* and netmask length p.
C7_ExplicitRangePlan ==
    \A c \in Calls :
        (Returned(c) /\ ret[c].err = NoErr /\ driver.ipnet # Nil) =>
            LET m == ret[c].netmsg
                A == newArgs.ipnet.IP
            IN  /\ m # Nil
                /\ IsOffset(ParseIP(m.IP), A, 100)
                /\ IsOffset(ParseIP(m.Gateway), A, 2)
                /\ IsOffset(ParseIP(m.DNS), A, 3)
                /\ m.Netmask \in 0..32
                /\ CIDRMask(m.Netmask) = newArgs.ipnet.Mask

C7_Witness ==
    /\ Returned(1)
    /\ ret[1].err = NoErr
    /\ newArgs.ipnet = MkIPNet(IPv4(10, 0, 255, 192), 26)
    /\ ret[1].netmsg.IP = "10.1.0.36"
    /\ ret[1].netmsg.Gateway = "10.0.255.194"
    /\ ret[1].netmsg.DNS = "10.0.255.195"
    /\ ret[1].netmsg.Netmask = 26

\* C8: without an explicit range, a successful ConfigureNetwork returns
\* IP 10.0.2.100, netmask length 24, gateway 10.0.2.2 and DNS 10.0.2.3,
\* whatever the rest of the configuration and the pid.
C8_DefaultPlan ==
    \A c \in Calls :
        (Returned(c) /\ ret[c].err = NoErr /\ newArgs.ipnet = Nil) =>
            /\ ret[c].netmsg # Nil
            /\ ret[c].netmsg.IP = "10.0.2.100"
            /\ ret[c].netmsg.Netmask = 24
            /\ ret[c].netmsg.Gateway = "10.0.2.2"
            /\ ret[c].netmsg.DNS = "10.0.2.3"

C8_Witness ==
    /\ Returned(1)
    /\ ret[1].err = NoErr
    /\ newArgs.ipnet = Nil
    /\ newArgs.createSandbox
    /\ childPID[1] = 1
    /\ ret[1].netmsg.IP = "10.0.2.100"

\* The option name sub occurs somewhere in the text s.
Occurs(sub, s) ==
    \E i \in 1..Len(s) :
        i + Len(sub) - 1 <= Len(s) /\ SubSeq(s, i, i + Len(sub) - 1) = sub

\* C9: when "--help" succeeds, DetectFeatures returns no error and each of
\* the four flags is true exactly when its option name occurs in the
\* output.
C9_FeaturesFromOutput ==
    (det # Nil /\ env.binary # "" /\ env.found /\ env.runOk) =>
        /\ det.err = NoErr
        /\ det.features # Nil
        /\ det.output = env.output
        /\ det.features.SupportsCIDR = Occurs("--cidr", env.output)
        /\ det.features.SupportsDisableHostLoopback
              = Occurs("--disable-host-loopback", env.output)
        /\ det.features.SupportsAPISocket = Occurs("--api-socket", env.output)
        /\ det.features.SupportsCreateSandbox
              = Occurs("--create-sandbox", env.output)

C9_Witness ==
    /\ det # Nil
    /\ det.err = NoErr
    /\ env.output = "--cidr--api-socket"
    /\ det.features = [SupportsCIDR |-> TRUE,
                       SupportsDisableHostLoopback |-> FALSE,
                       SupportsAPISocket |-> TRUE,
                       SupportsCreateSandbox |-> FALSE]

\* C10: when LookPath does not find the binary, DetectFeatures returns the
\* "is not installed" error and no Features, and has not run "--help".
C10_NotInstalled ==
    (det # Nil /\ env.binary # "" /\ ~env.found) =>
        /\ det.err = ErrNotInstalled(env.binary)
        /\ det.features = Nil
        /\ ~det.invoked
        /\ det.output = ""

C10_Witness ==
    /\ det # Nil
    /\ env.binary = "slirp4netns"
    /\ ~env.found
    /\ env.runOk
    /\ det.err = "slirp4netns binary slirp4netns is not installed"

\* C11: ConfigureNetworkChild returns the MissingDevice error for a message
\* with an empty device name, and otherwise that device name as it is and
\* no error, whatever the other fields of the message.
C11_ChildDevice ==
    childRet # Nil =>
        /\ childMsg.Dev = "" => (childRet.err = ErrNoTap /\ childRet.tap = "")
        /\ childMsg.Dev # "" => (childRet.err = NoErr /\ childRet.tap = childMsg.Dev)

C11_Witness ==
    /\ childRet # Nil
    /\ childMsg.Dev = "eth0"
    /\ childMsg.IP = ""
    /\ childRet = [tap |-> "eth0", err |-> NoErr]

\* C12: NewParentDriver panics for an empty binary or a negative MTU: no
\* driver is returned, and no device has been prepared, no command built
\* and no helper started.
C12_ConstructionFailsFast ==
    (newArgs # Nil /\ (newArgs.binary = "" \/ newArgs.mtu < 0)) =>
        /\ panicked \in {PanicEmptyBinary, PanicNegativeMTU}
        /\ newArgs.binary = "" => panicked = PanicEmptyBinary
        /\ driver = Nil
        /\ mtuRet = Nil
        /\ \A c \in Calls :
              /\ pc[c] = "idle"
              /\ tapState[c] = "none"
              /\ tapDev[c] = ""
              /\ ctx[c] = "none"
              /\ cmd[c] = Nil
              /\ proc[c] = "none"
              /\ log[c] = <<>>

C12_Witness ==
    /\ newArgs # Nil
    /\ newArgs.binary = "slirp4netns"
    /\ newArgs.mtu = -1
    /\ panicked = PanicNegativeMTU
    /\ driver = Nil

\* C13: a successful ConfigureNetwork returns a message whose device name
\* is not empty: it is the fixed name handed to PrepareTap and passed to the
\* helper as its last argument.
C13_DeviceNameOnSuccess ==
    \A c \in Calls :
        (Returned(c) /\ ret[c].err = NoErr) =>
            /\ ret[c].netmsg # Nil
            /\ ret[c].netmsg.Dev # ""
            /\ ret[c].netmsg.Dev = "tap0"
            /\ tapState[c] = "prepared"
            /\ ret[c].netmsg.Dev = tapDev[c]
            /\ ret[c].netmsg.Dev = cmd[c].Args[Len(cmd[c].Args)]

C13_Witness ==
    /\ Returned(1)
    /\ ret[1].err = NoErr
    /\ ret[1].netmsg.Dev = "tap0"
    /\ tapDev[1] = "tap0"
    /\ newArgs.ipnet # Nil

\* C14: when the cleanup chain of a successful ConfigureNetwork has
\* returned, the helper of that call has exited and has been waited for;
\* and once the chain has been invoked, it does return.
C14_HelperExited(c) ==
    (Returned(c) /\ ret[c].err = NoErr /\ pc[c] = "done") =>
        /\ proc[c] \in {"killed", "exit0", "exit1"}
        /\ waitErr[c] = WaitError(proc[c])
        /\ ctx[c] = "cancelled"

C14_CleanupWaitsForExit ==
    /\ [](\A c \in Calls : C14_HelperExited(c))
    /\ \A c \in Calls :
          (Returned(c) /\ ret[c].err = NoErr /\ pc[c] = "Cancel") ~> (pc[c] = "done")

C14_Witness ==
    /\ Returned(1)
    /\ ret[1].err = NoErr
    /\ pc[1] = "done"
    /\ proc[1] = "killed"

\* Everything the invocation c owns.
CallState(c) ==
    <<pc[c], childPID[c], tapState[c], ctx[c], cmd[c], proc[c], cleanups[c],
      ret[c], chainIdx[c], chainErr[c], waitErr[c], log[c], tapDev[c],
      cleanupRet[c]>>

\* The outcomes of the external calls invocation c made.
CallInputs(c) ==
    <<tapState[c], "StartFailed" \in {log[c][i] : i \in 1..Len(log[c])}>>

\* C15: concurrent invocations on one driver share no mutable state: a step
\* of one invocation leaves the driver and every other invocation as they
\* are, a helper is only killed by the cancel of its own cleanup chain, and
\* two invocations that met the same outcomes of their external calls
\* returned the same result, however they were interleaved.
C15_StepIsolated ==
    /\ driver' = driver
    /\ \A c \in Calls :
          CallState(c)' # CallState(c) =>
              \A d \in Calls \ {c} : CallState(d)' = CallState(d)

C15_OwnHelperOnly ==
    \A c \in Calls :
        /\ proc[c] = "killed" =>
              (ctx[c] = "cancelled" /\ Positions(log[c], "cancel") # {})
        /\ ctx[c] = "cancelled" => Positions(log[c], "cancel") # {}
        /\ \A d \in Calls :
              (Returned(c) /\ Returned(d) /\ CallInputs(c) = CallInputs(d)) =>
                  ret[c] = ret[d]

C15_InvocationsIndependent ==
    /\ [][C15_StepIsolated]_vars
    /\ []C15_OwnHelperOnly

C15_Witness ==
    /\ Returned(1) /\ ret[1].err = NoErr
    /\ Returned(2) /\ ret[2].err = NoErr
    /\ ret[1] = ret[2]
    /\ childPID[1] # childPID[2]
    /\ pc[1] = "done" /\ proc[1] = "killed"
    /\ pc[2] = "returned" /\ proc[2] = "running" /\ ctx[2] = "active"

\* C16: the cleanup closure returns no error whatever cmd.Wait() returned:
\* nil for a clean exit, the kill, a failed exit or a process never started.
C16_CleanupNeverFails ==
    \A c \in Calls :
        /\ (waitErr[c] = "unset") <=> (cleanupRet[c] = "unset")
        /\ waitErr[c] # "unset" =>
              /\ waitErr[c] \in {NoErr, ErrWaitKilled, ErrWaitExit, ErrWaitNotStarted}
              /\ cleanupRet[c] = NoErr

C16_Witness ==
    /\ waitErr[1] = ErrWaitExit
    /\ cleanupRet[1] = NoErr
    /\ pc[1] = "done"

\* The events of a log.
Events(l) == {l[i] : i \in 1..Len(l)}

\* C17 as stated: the helper is launched before the cleanup closure is
\* registered, and a failed launch returns a chain without the closure.
C17_LaunchBeforeRegister ==
    \A c \in Calls :
        /\ \A r \in Positions(log[c], "register") :
              \E s \in Positions(log[c], "Start") \cup Positions(log[c], "StartFailed") :
                  s < r
        /\ (Returned(c) /\ ret[c].err = ErrStart) =>
              Positions(ret[c].chain, KillSlirp4netns) = {}

\* C17, amended: the cleanup closure is registered before the helper is
\* launched, and a failed launch returns the ProcessStartFailed error, no
\* message and a chain that holds the closure although no process started.
C17_RegisterBeforeLaunch ==
    \A c \in Calls :
        /\ \A s \in Positions(log[c], "Start") \cup Positions(log[c], "StartFailed") :
              \E r \in Positions(log[c], "register") : r < s
        /\ "StartFailed" \in Events(log[c]) => (Returned(c) /\ ret[c].err = ErrStart)
        /\ (Returned(c) /\ ret[c].err = ErrStart) =>
              /\ "StartFailed" \in Events(log[c])
              /\ ret[c].netmsg = Nil
              /\ ret[c].chain = <<KillSlirp4netns>>
              /\ tapState[c] = "prepared"
              /\ proc[c] = "none"

C17_Witness ==
    /\ Returned(1)
    /\ ret[1].err = ErrStart
    /\ ret[1].chain = <<KillSlirp4netns>>
    /\ log[1] = <<"PrepareTap", "register", "StartFailed">>
    /\ proc[1] = "none"

\* C18: an invocation starts at most one helper, and whenever it returns
\* after the helper has started, with the message or with the error of an
\* address computation, the returned chain holds exactly one closure that
\* cancels and waits for that helper.
C18_NoHelperLeak ==
    \A c \in Calls :
        /\ Cardinality(Positions(log[c], "Start")) <= 1
        /\ proc[c] # "none" => "Start" \in Events(log[c])
        /\ (Returned(c) /\ "Start" \in Events(log[c])) =>
              /\ ret[c].err \in {NoErr, ErrAddIPInt}
              /\ Cardinality(Positions(ret[c].chain, KillSlirp4netns)) = 1
              /\ Len(ret[c].chain) = 1

C18_Witness ==
    /\ Returned(1)
    /\ ret[1].err = NoErr
    /\ proc[1] = "running"
    /\ pc[1] = "returned"
    /\ ret[1].chain = <<KillSlirp4netns>>

\* C19: a cleanup chain that has been invoked returns, and returns nil; for
\* a call whose Start failed, cmd.Wait() returns "not started" at once and
\* the chain still returns nil.
C19_FailedStartCleanup(c) ==
    /\ pc[c] = "done" => chainErr[c] = NoErr
    /\ (Returned(c) /\ ret[c].err = ErrStart /\ pc[c] = "done") =>
          /\ proc[c] = "none"
          /\ ctx[c] = "cancelled"
          /\ waitErr[c] = ErrWaitNotStarted
          /\ cleanupRet[c] = NoErr

C19_ChainTerminates ==
    /\ [](\A c \in Calls : C19_FailedStartCleanup(c))
    /\ \A c \in Calls : (pc[c] \in {"Cancel", "Wait"}) ~> (pc[c] = "done")

C19_Witness ==
    /\ Returned(1)
    /\ ret[1].err = ErrStart
    /\ pc[1] = "done"
    /\ waitErr[1] = ErrWaitNotStarted
    /\ chainErr[1] = NoErr

\* C20: ConfigureNetwork returns a message exactly when it returns no
\* error; the message is then complete, on a failure it is nil; and every
\* return carries a cleanup chain.
C20_MessageIffNoError ==
    \A c \in Calls :
        /\ Returned(c) <=> pc[c] \in {"returned", "Cancel", "Wait", "done"}
        /\ Returned(c) =>
              /\ ret[c].err \in {NoErr, ErrPrepareTap, ErrStart, ErrAddIPInt}
              /\ (ret[c].netmsg # Nil) <=> (ret[c].err = NoErr)
              /\ ret[c].netmsg # Nil =>
                    /\ DOMAIN ret[c].netmsg
                          = {"Dev", "MTU", "IP", "Netmask", "Gateway", "DNS"}
                    /\ ret[c].netmsg.IP # ""
                    /\ ret[c].netmsg.Gateway # ""
                    /\ ret[c].netmsg.DNS # ""
              /\ ret[c].chain \in {<<>>, <<KillSlirp4netns>>}
              /\ ret[c].chain = CommonSeq(cleanups[c])

C20_Witness ==
    /\ Returned(1)
    /\ pc[1] = "returned"
    /\ ret[1].err = ErrAddIPInt
    /\ ret[1].netmsg = Nil
    /\ ret[1].chain = <<KillSlirp4netns>>

====
